---- MODULE Spec2Model ----
(***************************************************************************)
(* A model of the CHIP-8 interpreter of src/chip8.c: the machine state of  *)
(* struct CHIP8, the scheduler loop of run(), one action per instruction   *)
(* of the decode chain, the draw / stack / memory helpers and the input    *)
(* adapter getkeyboard().                                                  *)
(***************************************************************************)
EXTENDS Integers, Naturals, Sequences, FiniteSets, TLC

(***************************************************************************)
(* Program constants.                                                      *)
(***************************************************************************)
STACK_SIZE == 5

MEMORY_SIZE == 4096

NOKEY == 255

QUIT == 254

ERR == 0 - 1

ESC == 27

ROWS == 32

COLS == 64

NREGS == 16

NOREG == 17

WORD == 65536

BYTE == 256

DEFAULT_PC == 512

DEFAULT_INSPERTICK == 11

EXIT_SUCCESS == 0

EXIT_FAILURE == 1

RUNNING == 0 - 1

TICKS_PER_SECOND == 60

NANOS_PER_SECOND == 1000000000

NANOS_PER_TICK == NANOS_PER_SECOND \div 60

(***************************************************************************)
(* Bounds of the model.                                                    *)
(***************************************************************************)
\* instructions per tick offered to the -s option besides the default
MaxSpeed == 1

(***************************************************************************)
(* Fixed-width arithmetic and bit operations.                              *)
(***************************************************************************)
u8(n) == n % BYTE

u16(n) == n % WORD

Pow2(k) == 2 ^ k

Bit(a, k) == (a \div Pow2(k)) % 2

RECURSIVE BitOp(_, _, _, _)
BitOp(f, a, b, k) ==
    IF k < 0 THEN 0
    ELSE f[Bit(a, k)][Bit(b, k)] * Pow2(k) + BitOp(f, a, b, k - 1)

OrTab == 0 :> (0 :> 0 @@ 1 :> 1) @@ 1 :> (0 :> 1 @@ 1 :> 1)

AndTab == 0 :> (0 :> 0 @@ 1 :> 0) @@ 1 :> (0 :> 0 @@ 1 :> 1)

XorTab == 0 :> (0 :> 0 @@ 1 :> 1) @@ 1 :> (0 :> 1 @@ 1 :> 0)

BOr(a, b) == BitOp(OrTab, a, b, 15)

BAnd(a, b) == BitOp(AndTab, a, b, 15)

BXor(a, b) == BitOp(XorTab, a, b, 15)

\* the bits of a byte taken from the least significant end
isbitset_lsb(n, b) == Bit(b, n) = 1

\* isbitset(n, b): (b << n) & 0x80, converted to bool; 0x80 is bit 7
isbitset(n, b) == Bit(b * Pow2(n), 7) = 1

B2I(b) == IF b THEN 1 ELSE 0

(***************************************************************************)
(* Instruction fields (the macros A, B, D, X, Y, VAL, LH).                 *)
(***************************************************************************)
A(inst) == (inst \div 4096) % 16

B(inst) == inst % 256

D(inst) == inst % 16

X(inst) == (inst \div 256) % 16

Y(inst) == (inst \div 16) % 16

VAL(inst) == inst % 4096

LH(inst) == inst % 256

(***************************************************************************)
(* The font table and the loaders.                                         *)
(***************************************************************************)
font ==
    << \hF0, \h90, \h90, \h90, \hF0,
       \h20, \h60, \h20, \h20, \h70,
       \hF0, \h10, \hF0, \h80, \hF0,
       \hF0, \h10, \hF0, \h10, \hF0,
       \h90, \h90, \hF0, \h10, \h10,
       \hF0, \h80, \hF0, \h10, \hF0,
       \hF0, \h80, \hF0, \h90, \hF0,
       \hF0, \h10, \h20, \h40, \h40,
       \hF0, \h90, \hF0, \h90, \hF0,
       \hF0, \h90, \hF0, \h10, \hF0,
       \hF0, \h90, \hF0, \h90, \h90,
       \hE0, \h90, \hE0, \h90, \hE0,
       \hF0, \h80, \h80, \h80, \hF0,
       \hE0, \h90, \h90, \h90, \hE0,
       \hF0, \h80, \hF0, \h80, \hF0,
       \hF0, \h80, \hF0, \h80, \h80 >>

\* The byte array mem[MEMORY_SIZE] is kept as the function from the
\* addresses of its non-zero bytes to their values: main builds the CHIP8
\* struct with an initializer, so every byte never written is 0.
ZeroMem == [a \in {} |-> 0]

Rd(m, a) == IF a \in DOMAIN m THEN m[a] ELSE 0

Wr(m, a, b) ==
    [x \in (IF b = 0 THEN DOMAIN m \ {a} ELSE DOMAIN m \cup {a}) |->
        IF x = a THEN b ELSE m[x]]

\* memcpy(buf + addr, bytes, n)
memcpy(buf, addr, bytes, n) ==
    LET val(a) == IF a >= addr /\ a < addr + n THEN bytes[a - addr + 1]
                  ELSE Rd(buf, a)
    IN  [a \in {x \in DOMAIN buf \cup (addr .. addr + n - 1) : val(x) # 0} |->
            val(a)]

loadfonts(buf, addr) == memcpy(buf, addr, font, Len(font))

Min(a, b) == IF a < b THEN a ELSE b

\* fread(buf + addr, 1, MEMORY_SIZE - addr, f): rom is the file's bytes
loadrom(rom, buf, addr) ==
    memcpy(buf, addr, rom, Min(Len(rom), MEMORY_SIZE - addr))

\* the bytes of a sequence of big-endian instruction words
RomBytes(words) ==
    [k \in 1 .. 2 * Len(words) |->
        IF k % 2 = 1 THEN words[(k + 1) \div 2] \div 256
                     ELSE words[k \div 2] % 256]

\* the default keymap "x123qweasdzc4rfv" as character codes
DefaultKeymap ==
    <<120, 49, 50, 51, 113, 119, 101, 97, 115, 100, 122, 99, 52, 114, 102, 118>>

(***************************************************************************)
(* The input adapter.                                                      *)
(***************************************************************************)
NULL == 0 - 1

tolower(c) == IF c >= 65 /\ c <= 90 THEN c + 32 ELSE c

\* strchr(s, c) as an offset from s: the first position holding c, the
\* position of the terminating NUL when c is 0, NULL when c does not occur
strchr(s, c) ==
    IF \E k \in 1 .. Len(s) : s[k] = c
    THEN (CHOOSE k \in 1 .. Len(s) :
              s[k] = c /\ \A j \in 1 .. k - 1 : s[j] # c) - 1
    ELSE IF c = 0 THEN Len(s) ELSE NULL

\* getkeyboard with c the value returned by getch()
getkeyboard(km, c) ==
    IF c = ESC THEN QUIT
    ELSE IF c # ERR /\ strchr(km, tolower(c)) # NULL
         THEN u8(strchr(km, tolower(c)))
         ELSE NOKEY

(***************************************************************************)
(* Fetch and decode.                                                       *)
(***************************************************************************)
fetchIndex(p) == p % MEMORY_SIZE

fetch(m, p) ==
    LET i1 == Rd(m, fetchIndex(p))
        p1 == u16(p + 1)
        i2 == Rd(m, fetchIndex(p1))
    IN  [inst |-> u16(i1 * 256 + i2),
         pc |-> u16(p1 + 1),
         addrs |-> {fetchIndex(p), fetchIndex(p1)}]

\* the DEQ / DAA / DAD / DAB chain of run(), in its order
Decode(inst) ==
    IF inst = \h00E0 THEN "cls"
    ELSE IF inst = \h00EE THEN "rts"
    ELSE IF A(inst) = 1 THEN "jp"
    ELSE IF A(inst) = 2 THEN "call"
    ELSE IF A(inst) = 3 THEN "se"
    ELSE IF A(inst) = 4 THEN "sne"
    ELSE IF A(inst) = 5 /\ D(inst) = 0 THEN "sexy"
    ELSE IF A(inst) = 6 THEN "ld"
    ELSE IF A(inst) = 7 THEN "addi"
    ELSE IF A(inst) = 8 /\ D(inst) = 0 THEN "mov"
    ELSE IF A(inst) = 8 /\ D(inst) = 1 THEN "or"
    ELSE IF A(inst) = 8 /\ D(inst) = 2 THEN "and"
    ELSE IF A(inst) = 8 /\ D(inst) = 3 THEN "xor"
    ELSE IF A(inst) = 8 /\ D(inst) = 4 THEN "add"
    ELSE IF A(inst) = 8 /\ D(inst) = 5 THEN "sub"
    ELSE IF A(inst) = 8 /\ D(inst) = 6 THEN "shr"
    ELSE IF A(inst) = 8 /\ D(inst) = 7 THEN "subn"
    ELSE IF A(inst) = 8 /\ D(inst) = 14 THEN "shl"
    ELSE IF A(inst) = 9 /\ D(inst) = 0 THEN "snexy"
    ELSE IF A(inst) = 10 THEN "ldi"
    ELSE IF A(inst) = 11 THEN "jpv0"
    ELSE IF A(inst) = 12 THEN "rnd"
    ELSE IF A(inst) = 13 THEN "draw"
    ELSE IF A(inst) = 14 /\ B(inst) = \h9E THEN "skp"
    ELSE IF A(inst) = 14 /\ B(inst) = \hA1 THEN "sknp"
    ELSE IF A(inst) = 15 /\ B(inst) = \h07 THEN "lddt"
    ELSE IF A(inst) = 15 /\ B(inst) = \h0A THEN "waitkey"
    ELSE IF A(inst) = 15 /\ B(inst) = \h15 THEN "setdt"
    ELSE IF A(inst) = 15 /\ B(inst) = \h18 THEN "setst"
    ELSE IF A(inst) = 15 /\ B(inst) = \h1E THEN "addidx"
    ELSE IF A(inst) = 15 /\ B(inst) = \h29 THEN "ldfont"
    ELSE IF A(inst) = 15 /\ B(inst) = \h33 THEN "bcd"
    ELSE IF A(inst) = 15 /\ B(inst) = \h55 THEN "regdmp"
    ELSE IF A(inst) = 15 /\ B(inst) = \h65 THEN "regld"
    ELSE "invalid"

(***************************************************************************)
(* The display.                                                            *)
(***************************************************************************)
\* The grid display[32][64] is kept as the set of the cells <<row, col>>
\* that are on.
Blank == {}

\* setpixel on every cell of cells, no cell twice: the cells that were on
\* go off, the others go on
setpixels_setonly(disp, cells) == disp \cup cells

setpixels(disp, cells) == (disp \ cells) \cup (cells \ disp)

\* an inner loop without the clip at the right edge
colInGrid_noclip(x, col) == col < 8

\* the condition of the inner loop of draw
colInGrid(x, col) == col < 8 /\ x + col < COLS

\* an outer loop without the test of the end of memory
rowInRange_nomem(n, y, idx, row) == row < n /\ y + row < ROWS

\* the condition of the outer loop of draw
rowInRange(n, y, idx, row) ==
    row < n /\ y + row < ROWS /\ idx + row < MEMORY_SIZE

\* the inner loop of draw on the sprite byte b: setpixel on the cells of row
\* r whose bit is set; s is the state of the draw in progress, with the
\* display cells and the memory addresses it has used
drawCols(s, b, r, x) ==
    LET cells == {<<r, x + col>> :
                     col \in {c \in 0 .. 7 : colInGrid(x, c) /\ isbitset(c, b)}}
    IN  [display |-> setpixels(s.display, cells),
         vf |-> IF cells \cap s.display # {} THEN 1 ELSE s.vf,
         dirty |-> s.dirty \/ cells # {},
         cells |-> s.cells \cup cells,
         rows |-> s.rows]

RECURSIVE drawRows(_, _, _, _, _, _, _)
drawRows(s, m, idx, x, y, n, row) ==
    IF rowInRange(n, y, idx, row)
    THEN drawRows(drawCols([s EXCEPT !.rows = @ \cup {idx + row}],
                           Rd(m, idx + row), y + row, x),
                  m, idx, x, y, n, row + 1)
    ELSE s

\* draw(vm, inst): the display, VF, the dirty flag, and the display cells
\* and memory addresses it touched
draw(disp, dflag, regs, m, idx, inst) ==
    LET x == regs[X(inst)] % COLS
        y == regs[Y(inst)] % ROWS
        n == D(inst)
    IN  drawRows([display |-> disp, vf |-> 0, dirty |-> dflag,
                  cells |-> {}, rows |-> {}],
                 m, idx, x, y, n, 0)

(***************************************************************************)
(* Memory helpers.                                                         *)
(***************************************************************************)
\* an index that is not reduced modulo the size of memory
memIndex_nowrap(idx, k) == idx + k

memIndex(idx, k) == (idx + k) % MEMORY_SIZE

bcd(m, idx, vx) ==
    LET m0 == Wr(m, memIndex(idx, 0), vx \div 100)
        v0 == vx % 100
        m1 == Wr(m0, memIndex(idx, 1), v0 \div 10)
        v1 == v0 % 10
    IN  Wr(m1, memIndex(idx, 2), v1 \div 1)

RECURSIVE regdmp(_, _, _, _, _)
regdmp(m, regs, idx, vx, i) ==
    IF i <= vx
    THEN regdmp(Wr(m, memIndex(idx, i), regs[i]), regs, idx, vx, i + 1)
    ELSE m

RECURSIVE regld(_, _, _, _, _)
regld(m, regs, idx, vx, i) ==
    IF i <= vx
    THEN regld(m, [regs EXCEPT ![i] = Rd(m, memIndex(idx, i))], idx, vx, i + 1)
    ELSE regs

(***************************************************************************)
(* Stack helpers: the guards of call and rts.                              *)
(***************************************************************************)
\* call with the test sp > STACK_SIZE
callOverflow_gt(s) == s > STACK_SIZE

callOverflow(s) == s >= STACK_SIZE

\* a loop that never ends on the quit request
running_ignorequit(p) == TRUE

\* the condition of the while loop of run
running(p) == p # QUIT

rtsUnderflow(s) == s = 0

(***************************************************************************)
(* Timers: the decrement at the end of a tick.                             *)
(***************************************************************************)
\* a decrement without the test for zero
tickdown_nofloor(t) == u8(t - 1)

tickdown(t) == IF t # 0 THEN t - 1 ELSE t

(***************************************************************************)
(* The pacing of the ticks: tsdiff and sleeptonexttick.                    *)
(***************************************************************************)
\* the division of C, which truncates toward zero (b > 0)
cdiv(a, b) == IF a >= 0 THEN a \div b ELSE 0 - ((0 - a) \div b)

\* a struct timespec
Timespec(s, n) == [tv_sec |-> s, tv_nsec |-> n]

\* tsdiff(end, start)
tsdiff(end, start) ==
    (end.tv_sec - start.tv_sec)
    + cdiv(end.tv_nsec - start.tv_nsec, NANOS_PER_SECOND)

\* sleeptonexttick(start, end): the rqtp handed to nanosleep, the zero
\* timespec when nanosleep is not called
sleeptonexttick(start, end) ==
    LET nanos == NANOS_PER_TICK - tsdiff(end, start)
    IN  IF nanos > 0
        THEN Timespec(cdiv(nanos, NANOS_PER_SECOND), nanos % NANOS_PER_SECOND)
        ELSE Timespec(0, 0)

(***************************************************************************)
(* ROM images and inputs offered to the machine.                           *)
(***************************************************************************)
W(a, b, c, d) == a * 4096 + b * 256 + c * 16 + d

\* register values at the edges of the 8-bit range
Vals == {0, 1, 127, 128, 255}

\* register pairs, among them VF as destination and a register with itself
RegPairs == {<<0, 1>>, <<15, 1>>, <<2, 2>>}

\* ld Vx,a ; ld Vy,b ; one two-register instruction 8xyd / 5xy0 / 9xy0
AluRoms ==
    {<<W(6, r[1], 0, 0) + a, W(6, r[2], 0, 0) + b, W(f[1], r[1], r[2], f[2])>> :
        <<r, a, b, f>> \in RegPairs \X Vals \X Vals \X
            {<<8, 0>>, <<8, 1>>, <<8, 2>>, <<8, 3>>, <<8, 4>>, <<8, 5>>,
             <<8, 6>>, <<8, 7>>, <<8, 14>>, <<5, 0>>, <<9, 0>>}}

\* ld Vx,a ; one skip or key-skip instruction ; two self-jumps
SkipVals == {0, 1, 15, 16, 254, 255}

SkipRoms ==
    {<<W(6, x, 0, 0) + a, W(f, x, 0, 0) + nn, \h1204, \h1206>> :
        <<x, a, f, nn>> \in {0, 15} \X SkipVals \X {3, 4} \X {0, 1, 255}}
    \cup
    {<<W(6, x, 0, 0) + a, W(14, x, 0, 0) + nn, \h1204, \h1206>> :
        <<x, a, nn>> \in {0, 15} \X SkipVals \X {\h9E, \hA1}}

\* wait for a key, alone and with the timers running
KeyRoms ==
    {<<W(15, x, 0, 10), \h1202>> : x \in {0, 7, 15}}
    \cup
    {<<\h6000 + t, \hF015, \h6000 + u, \hF018, \hF10A, \hF207, \h120A>> :
        <<t, u>> \in {<<3, 1>>, <<0, 2>>}}

\* set the timers and loop reading the delay timer
TimerRoms ==
    {<<\h6000 + t, \hF015, \h6100 + u, \hF118, \hF207, \h1208>> :
        <<t, u>> \in {<<0, 0>>, <<1, 3>>, <<3, 1>>, <<2, 0>>}}

\* calls and returns: unbounded recursion, a return on the empty stack,
\* nested calls of depth 2 and 5 that all return, depth 6
StackRoms ==
    {<<\h2200>>,
     <<\h00EE>>,
     <<\h2204, \h1202, \h2208, \h00EE, \h00EE>>,
     <<\h2204, \h1202, \h2208, \h00EE, \h220C, \h00EE,
       \h2210, \h00EE, \h2214, \h00EE, \h00EE>>,
     <<\h2204, \h1202, \h2208, \h00EE, \h220C, \h00EE,
       \h2210, \h00EE, \h2214, \h00EE, \h2218, \h00EE, \h00EE>>}

\* a font glyph drawn first, then the same draw twice
DrawPos == {<<0, 0>>, <<2, 1>>, <<61, 29>>, <<66, 33>>, <<255, 255>>}

DrawRoms ==
    {<<\hA000 + g, \hD225, \hA000 + i, \h6000 + q[1], \h6100 + q[2],
       \hD010 + n, \hD010 + n, \h120E>> :
        <<g, i, q, n>> \in {0} \X {0, 5} \X DrawPos \X {0, 1, 5, 15}}
    \cup
    {<<\hA000 + i, \h6F00 + q[1], \h6100 + q[2], W(13, r[1], r[2], 5),
       W(13, r[1], r[2], 5), \h120A>> :
        <<i, q, r>> \in {0, 5} \X DrawPos \X {<<15, 1>>, <<1, 15>>}}

\* sprites that reach the end of memory: two bytes stored at 0xFFE and
\* 0xFFF; sprites read with the index register past the end of memory
EdgeDrawRoms ==
    {<<\h60FF, \h6181, \hAFFE, \hF155, \h6000 + a, \hF01E,
       \h6200 + q[1], \h6300 + q[2], \hD230 + n, \hD230 + n, \h1214>> :
        <<a, q, n>> \in {0, 1, 2, 255} \X {<<0, 0>>, <<60, 30>>} \X {1, 2, 4}}

\* the memory instructions at addresses inside memory, at its end and past it
MemRoms ==
    {<<\hA000 + i, \h6000 + a, \h6100 + b, \h6200 + a, w1, w2, w3>> :
        <<i, a, b, w1, w2, w3>> \in
            {\h300, \hFFF} \X {0, 255} \X {1, 255} \X
            {\hF01E, \hF129} \X {\hF133, \hF255, \hF11E} \X {\hF265, \hFF65}}

\* the remaining instructions
MiscRoms ==
    {<<\h00E0, \h1202>>,
     <<\hA000, \hD005, \h00E0, \h1206>>,
     <<\h0000>>, <<\h5011>>, <<\h8008>>, <<\h9001>>, <<\hE000>>, <<\hF000>>,
     <<\h1FFE>>, <<\h1FFF>>,
     <<\h6060, \hAFFF, \hF055, \h1FFF>>}
    \cup {<<\hC000 + nn, \h1202>> : nn \in {\h00, \h0F, \hFF}}
    \cup {<<\h6000 + a, \h7000 + b, \h1204>> : <<a, b>> \in Vals \X Vals}
    \cup {<<\h6000 + a, \hB204, \h1204, \h1206>> : a \in {0, 2}}
    \cup {<<\h60FF, \hBFFF>>}

Roms ==
    AluRoms \cup SkipRoms \cup KeyRoms \cup TimerRoms \cup StackRoms
    \cup DrawRoms \cup EdgeDrawRoms \cup MemRoms \cup MiscRoms

\* the ROMs also run at the speeds 1 .. MaxSpeed
SlowRoms == KeyRoms \cup TimerRoms \cup StackRoms \cup MiscRoms

\* load addresses offered to the -a option
Addrs == {DEFAULT_PC}

\* the ROM, the load address and the instructions per tick of a run
Configs ==
    (Roms \X Addrs \X {DEFAULT_INSPERTICK})
    \cup (SlowRoms \X Addrs \X (1 .. MaxSpeed))

Keymaps == {DefaultKeymap}

\* values of getch(): nothing, escape, NUL, 'V'
RawChars == {ERR, ESC, 0, 86}

\* values of rand()
RandVals == {0, 1, 254, 255, 509}

\* readings of the monotonic clock at the start and at the end of a batch:
\* no time elapsed, 1 ms, 20 ms (more than a period), 2000 ns across the
\* turn of a second
Clocks ==
    {<<Timespec(7, 100), Timespec(7, 100)>>,
     <<Timespec(7, 100), Timespec(7, 1000100)>>,
     <<Timespec(7, 0), Timespec(7, 20000000)>>,
     <<Timespec(7, 999999000), Timespec(8, 1000)>>}

(***************************************************************************)
(* The state: struct CHIP8, the locals of run(), and the exit status.      *)
(***************************************************************************)
VARIABLES mem, stack, pc, sp, I, delay, sound, v, dirty, display,
          inspertick, keymap,
          keyreg, pressed, ins, loc, status, msg,
          acc, last, tick

vm == <<mem, stack, pc, sp, I, delay, sound, v, dirty, display>>

opts == <<inspertick, keymap>>

locals == <<keyreg, pressed, ins>>

proc == <<loc, status, msg>>

vars == <<mem, stack, pc, sp, I, delay, sound, v, dirty, display,
          inspertick, keymap, keyreg, pressed, ins, loc, status, msg,
          acc, last, tick>>

\* the array indices an operation used
Acc(m, d, s, r) == [mem |-> m, disp |-> d, stack |-> s, reg |-> r]

NoAcc == Acc({}, {}, {}, {})

\* the instruction executed last and the machine it found, with the
\* instruction executed before it and the display that one found
NoLast == [inst |-> 0 - 1, pc |-> 0, v |-> [r \in 0 .. NREGS - 1 |-> 0],
           I |-> 0, display |-> Blank, pinst |-> 0 - 1, pdisplay |-> Blank]

\* the tick in progress: whether it is the first of the run, the value
\* getch() returned to its poll, whether its batch has called cls or
\* setpixel, and what its end did: the call of refresh(), the two clock
\* readings and the rqtp of the sleep
NoTick ==
    [first |-> TRUE, raw |-> ERR, painted |-> FALSE, refresh |-> FALSE,
     start |-> Timespec(0, 0), end |-> Timespec(0, 0),
     rqtp |-> Timespec(0, 0)]

Init ==
    \E cfg \in Configs, km \in Keymaps :
        LET rom == cfg[1]
            addr == cfg[2]
            s == cfg[3]
        IN
        /\ mem = loadrom(RomBytes(rom), loadfonts(ZeroMem, 0), addr)
        /\ stack = [k \in 0 .. STACK_SIZE - 1 |-> 0]
        /\ pc = addr
        /\ sp = 0
        /\ I = 0
        /\ delay = 0
        /\ sound = 0
        /\ v = [r \in 0 .. NREGS - 1 |-> 0]
        /\ dirty = FALSE
        /\ display = Blank
        /\ inspertick = s
        /\ keymap = km
        /\ keyreg = NOREG
        /\ pressed = NOKEY
        /\ ins = 0
        /\ loc = "while"
        /\ status = RUNNING
        /\ msg = ""
        /\ acc = NoAcc
        /\ last = NoLast
        /\ tick = NoTick

(***************************************************************************)
(* The scheduler loop of run().                                            *)
(***************************************************************************)
\* the poll and the delivery of a key to a pending wait
Poll ==
    /\ loc = "while"
    /\ running(pressed)
    /\ \E c \in RawChars :
        LET p == getkeyboard(keymap, c) IN
        /\ pressed' = p
        /\ tick' = [NoTick EXCEPT !.first = tick.first, !.raw = c]
        /\ IF keyreg < NREGS /\ p # NOKEY
           THEN /\ v' = [v EXCEPT ![keyreg] = p]
                /\ keyreg' = NOREG
                /\ pc' = u16(pc + 2)
                /\ acc' = Acc({}, {}, {}, {keyreg})
           ELSE /\ UNCHANGED <<v, keyreg, pc>>
                /\ acc' = NoAcc
    /\ ins' = 0
    /\ loc' = "for"
    /\ UNCHANGED <<mem, stack, sp, I, delay, sound, dirty, display,
                   opts, status, msg, last>>

\* the end of the batch: timers, sleeptonexttick, refreshscreen; the
\* reading of the clock taken before the batch is drawn here with the one
\* taken after it, nothing in between depends on it
EndTick ==
    /\ loc = "for"
    /\ ~ (ins < inspertick)
    /\ delay' = tickdown(delay)
    /\ sound' = tickdown(sound)
    /\ \E clk \in Clocks :
          tick' = [first |-> FALSE, raw |-> tick.raw,
                   painted |-> tick.painted,
                   refresh |-> dirty,
                   start |-> clk[1], end |-> clk[2],
                   rqtp |-> sleeptonexttick(clk[1], clk[2])]
    /\ dirty' = FALSE
    /\ loc' = "while"
    /\ acc' = NoAcc
    /\ UNCHANGED <<mem, stack, pc, sp, I, v, display, opts, locals,
                   status, msg, last>>

\* the loop condition fails: run returns and main returns EXIT_SUCCESS
Return ==
    /\ loc = "while"
    /\ ~ running(pressed)
    /\ loc' = "exit"
    /\ status' = EXIT_SUCCESS
    /\ acc' = NoAcc
    /\ UNCHANGED <<vm, opts, locals, msg, last, tick>>

(***************************************************************************)
(* The instruction cycle.                                                  *)
(***************************************************************************)
F == fetch(mem, pc)

Inst == F.inst

NextPC == F.pc

Vx == v[X(Inst)]

Vy == v[Y(Inst)]

Exec(op) == loc = "for" /\ ins < inspertick /\ Decode(Inst) = op

\* the machine after the fetch, before the instruction acts
Fetched ==
    [mem |-> mem, stack |-> stack, pc |-> NextPC, sp |-> sp, I |-> I,
     delay |-> delay, sound |-> sound, v |-> v, dirty |-> dirty,
     display |-> display, keyreg |-> keyreg]

Remember ==
    last' = [inst |-> Inst, pc |-> pc, v |-> v, I |-> I, display |-> display,
             pinst |-> last.inst, pdisplay |-> last.display]

\* the instruction completes with machine e, having used the indices a
Continue(e, a) ==
    /\ mem' = e.mem
    /\ stack' = e.stack
    /\ pc' = e.pc
    /\ sp' = e.sp
    /\ I' = e.I
    /\ delay' = e.delay
    /\ sound' = e.sound
    /\ v' = e.v
    /\ dirty' = e.dirty
    /\ display' = e.display
    /\ keyreg' = e.keyreg
    /\ ins' = ins + 1
    /\ acc' = [a EXCEPT !.mem = @ \cup F.addrs]
    /\ tick' = [tick EXCEPT !.painted = @ \/ Inst = \h00E0 \/ a.disp # {}]
    /\ Remember
    /\ UNCHANGED <<opts, pressed, proc>>

\* die(m) after the fetch
Die(m) ==
    /\ pc' = NextPC
    /\ loc' = "exit"
    /\ status' = EXIT_FAILURE
    /\ msg' = m
    /\ acc' = Acc(F.addrs, {}, {}, {})
    /\ Remember
    /\ UNCHANGED <<mem, stack, sp, I, delay, sound, v, dirty, display,
                   opts, locals, tick>>

SetV(regs, r, val) == [regs EXCEPT ![r] = val]

Regs(S) == Acc({}, {}, {}, S)

XY == {X(Inst), Y(Inst)}

\* 8xy4: Vx += Vy; VF = (int)Vx + Vy > 0xFF
add(regs, x, y) ==
    LET r1 == SetV(regs, x, u8(regs[x] + regs[y]))
    IN  SetV(r1, 15, B2I(r1[x] + r1[y] > 255))

\* 8xy5: Vx -= Vy; VF = (int)Vx > Vy
sub(regs, x, y) ==
    LET r1 == SetV(regs, x, u8(regs[x] - regs[y]))
    IN  SetV(r1, 15, B2I(r1[x] > r1[y]))

\* 8xy6: VF = Vx&1; Vx >>= 1
shr(regs, x) ==
    LET r1 == SetV(regs, 15, BAnd(regs[x], 1))
    IN  SetV(r1, x, r1[x] \div 2)

\* 8xyE: VF = isbitset(0, Vx); Vx <<= 1
shl(regs, x) ==
    LET r1 == SetV(regs, 15, B2I(isbitset(0, regs[x])))
    IN  SetV(r1, x, u8(r1[x] * 2))

\* Fx1E: the flag, computed from Vx and the index register after I += Vx
addidxFlag(vx, idx) == B2I(vx + idx > 4095)

\* a cls that does not mark the display dirty
Cls_clean ==
    /\ Exec("cls")
    /\ Continue([Fetched EXCEPT !.display = Blank], NoAcc)

\* 00E0: cls
Cls ==
    /\ Exec("cls")
    /\ Continue([Fetched EXCEPT !.display = Blank, !.dirty = TRUE],
                NoAcc)

\* 1nnn: PC = VAL
Jp ==
    /\ Exec("jp")
    /\ Continue([Fetched EXCEPT !.pc = VAL(Inst)],
                NoAcc)

\* 3xnn: PC += (Vx == LH) * 2
Se ==
    /\ Exec("se")
    /\ Continue([Fetched EXCEPT !.pc = u16(NextPC + B2I(Vx = LH(Inst)) * 2)],
                Regs({X(Inst)}))

\* 4xnn skipping on equality
Sne_eq ==
    /\ Exec("sne")
    /\ Continue([Fetched EXCEPT !.pc = u16(NextPC + B2I(Vx = LH(Inst)) * 2)],
                Regs({X(Inst)}))

\* 4xnn: PC += (Vx != LH) * 2
Sne ==
    /\ Exec("sne")
    /\ Continue([Fetched EXCEPT !.pc = u16(NextPC + B2I(Vx # LH(Inst)) * 2)],
                Regs({X(Inst)}))

\* 5xy0: PC += (Vx == Vy) * 2
Sexy ==
    /\ Exec("sexy")
    /\ Continue([Fetched EXCEPT !.pc = u16(NextPC + B2I(Vx = Vy) * 2)],
                Regs(XY))

\* 6xnn: Vx = LH
Ld ==
    /\ Exec("ld")
    /\ Continue([Fetched EXCEPT !.v = SetV(v, X(Inst), LH(Inst))],
                Regs({X(Inst)}))

\* 7xnn: Vx += LH
Addi ==
    /\ Exec("addi")
    /\ Continue([Fetched EXCEPT !.v = SetV(v, X(Inst), u8(Vx + LH(Inst)))],
                Regs({X(Inst)}))

\* 8xy0: Vx = Vy
Mov ==
    /\ Exec("mov")
    /\ Continue([Fetched EXCEPT !.v = SetV(v, X(Inst), Vy)],
                Regs(XY))

\* 8xy1: Vx |= Vy
Or ==
    /\ Exec("or")
    /\ Continue([Fetched EXCEPT !.v = SetV(v, X(Inst), BOr(Vx, Vy))],
                Regs(XY))

\* 8xy2: Vx &= Vy
And ==
    /\ Exec("and")
    /\ Continue([Fetched EXCEPT !.v = SetV(v, X(Inst), BAnd(Vx, Vy))],
                Regs(XY))

\* 8xy3: Vx ^= Vy
Xor ==
    /\ Exec("xor")
    /\ Continue([Fetched EXCEPT !.v = SetV(v, X(Inst), BXor(Vx, Vy))],
                Regs(XY))

\* 8xy4: Vx += Vy; VF = (int)Vx + Vy > 0xFF
Add ==
    /\ Exec("add")
    /\ Continue([Fetched EXCEPT !.v = add(v, X(Inst), Y(Inst))],
                Regs(XY \cup {15}))

\* 8xy5: Vx -= Vy; VF = (int)Vx > Vy
Sub ==
    /\ Exec("sub")
    /\ Continue([Fetched EXCEPT !.v = sub(v, X(Inst), Y(Inst))],
                Regs(XY \cup {15}))

\* 8xy6: VF = Vx&1; Vx >>= 1
Shr ==
    /\ Exec("shr")
    /\ Continue([Fetched EXCEPT !.v = shr(v, X(Inst))],
                Regs({X(Inst), 15}))

\* 8xy7: Vx = Vy - Vx
Subn ==
    /\ Exec("subn")
    /\ Continue([Fetched EXCEPT !.v = SetV(v, X(Inst), u8(Vy - Vx))],
                Regs(XY))

\* 8xyE: VF = isbitset(0, Vx); Vx <<= 1
Shl ==
    /\ Exec("shl")
    /\ Continue([Fetched EXCEPT !.v = shl(v, X(Inst))],
                Regs({X(Inst), 15}))

\* 9xy0: PC += (Vx != Vy) * 2
Snexy ==
    /\ Exec("snexy")
    /\ Continue([Fetched EXCEPT !.pc = u16(NextPC + B2I(Vx # Vy) * 2)],
                Regs(XY))

\* Annn: I = VAL
Ldi ==
    /\ Exec("ldi")
    /\ Continue([Fetched EXCEPT !.I = VAL(Inst)],
                NoAcc)

\* Bnnn: PC = VAL + V(0)
Jpv0 ==
    /\ Exec("jpv0")
    /\ Continue([Fetched EXCEPT !.pc = u16(VAL(Inst) + v[0])],
                Regs({0}))

\* Ex9E: PC += (Vx == pressed) * 2
Skp ==
    /\ Exec("skp")
    /\ Continue([Fetched EXCEPT !.pc = u16(NextPC + B2I(Vx = pressed) * 2)],
                Regs({X(Inst)}))

\* ExA1: PC += (Vx != pressed) * 2
Sknp ==
    /\ Exec("sknp")
    /\ Continue([Fetched EXCEPT !.pc = u16(NextPC + B2I(Vx # pressed) * 2)],
                Regs({X(Inst)}))

\* Fx07: Vx = vm->delay
Lddt ==
    /\ Exec("lddt")
    /\ Continue([Fetched EXCEPT !.v = SetV(v, X(Inst), delay)],
                Regs({X(Inst)}))

\* Fx0A: PC -= 2; keyreg = X
Waitkey ==
    /\ Exec("waitkey")
    /\ Continue([Fetched EXCEPT !.pc = u16(NextPC - 2), !.keyreg = X(Inst)],
                NoAcc)

\* Fx15: vm->delay = Vx
Setdt ==
    /\ Exec("setdt")
    /\ Continue([Fetched EXCEPT !.delay = Vx],
                Regs({X(Inst)}))

\* Fx18: vm->sound = Vx
Setst ==
    /\ Exec("setst")
    /\ Continue([Fetched EXCEPT !.sound = Vx],
                Regs({X(Inst)}))

\* Fx1E: I += Vx; VF = (int)Vx + I > 0xFFF
Addidx ==
    /\ Exec("addidx")
    /\ Continue([Fetched EXCEPT !.I = u16(I + Vx), !.v = SetV(v, 15, addidxFlag(Vx, u16(I + Vx)))],
                Regs({X(Inst), 15}))

\* Fx29: I = Vx * 5
Ldfont ==
    /\ Exec("ldfont")
    /\ Continue([Fetched EXCEPT !.I = Vx * 5],
                Regs({X(Inst)}))

\* Fx33: bcd(vm, Vx)
Bcd ==
    /\ Exec("bcd")
    /\ Continue([Fetched EXCEPT !.mem = bcd(mem, I, Vx)],
                Acc({memIndex(I, k) : k \in 0 .. 2}, {}, {}, {X(Inst)}))

\* Fx55: regdmp(vm, X)
Regdmp ==
    /\ Exec("regdmp")
    /\ Continue([Fetched EXCEPT !.mem = regdmp(mem, v, I, X(Inst), 0)],
                Acc({memIndex(I, k) : k \in 0 .. X(Inst)}, {}, {}, 0 .. X(Inst)))

\* Fx65: regld(vm, X)
Regld ==
    /\ Exec("regld")
    /\ Continue([Fetched EXCEPT !.v = regld(mem, v, I, X(Inst), 0)],
                Acc({memIndex(I, k) : k \in 0 .. X(Inst)}, {}, {}, 0 .. X(Inst)))

\* 00EE: rts(vm)
Rts ==
    /\ Exec("rts")
    /\ ~ rtsUnderflow(sp)
    /\ Continue([Fetched EXCEPT !.sp = u16(sp - 1), !.pc = stack[u16(sp - 1)]],
                Acc({}, {}, {u16(sp - 1)}, {}))

RtsDie ==
    /\ Exec("rts")
    /\ rtsUnderflow(sp)
    /\ Die("stack underflow\n")

\* a call that pushes the address of the call itself
Call_self ==
    /\ Exec("call")
    /\ ~ callOverflow(sp)
    /\ Continue([Fetched EXCEPT !.stack = [stack EXCEPT ![sp] = pc],
                                !.sp = u16(sp + 1),
                                !.pc = VAL(Inst)],
                Acc({}, {}, {sp}, {}))

\* 2nnn: call(vm, VAL)
Call ==
    /\ Exec("call")
    /\ ~ callOverflow(sp)
    /\ Continue([Fetched EXCEPT !.stack = [stack EXCEPT ![sp] = NextPC],
                                !.sp = u16(sp + 1),
                                !.pc = VAL(Inst)],
                Acc({}, {}, {sp}, {}))

CallDie ==
    /\ Exec("call")
    /\ callOverflow(sp)
    /\ Die("stack overflow\n")

\* Cxnn: Vx = (rand()%255)&LH
Rnd ==
    /\ Exec("rnd")
    /\ \E r \in RandVals :
        Continue([Fetched EXCEPT !.v = SetV(v, X(Inst), BAnd(r % 255, LH(Inst)))],
                 Regs({X(Inst)}))

\* Dxyn: draw(vm, inst)
Draw ==
    /\ Exec("draw")
    /\ LET d == draw(display, dirty, v, mem, I, Inst) IN
        Continue([Fetched EXCEPT !.display = d.display,
                                 !.dirty = d.dirty,
                                 !.v = SetV(v, 15, d.vf)],
                 Acc(d.rows, d.cells, {}, XY \cup {15}))

\* an unmatched word passed over as if it did nothing
Invalid_skip ==
    /\ Exec("invalid")
    /\ Continue(Fetched, NoAcc)

\* no entry of the chain matches
Invalid ==
    /\ Exec("invalid")
    /\ Die("invalid instruction\n")

Next ==
    \/ Poll \/ EndTick \/ Return
    \/ Cls \/ Rts \/ RtsDie \/ Jp \/ Call \/ CallDie
    \/ Se \/ Sne \/ Sexy \/ Ld \/ Addi
    \/ Mov \/ Or \/ And \/ Xor \/ Add \/ Sub \/ Shr \/ Subn \/ Shl
    \/ Snexy \/ Ldi \/ Jpv0 \/ Rnd \/ Draw \/ Skp \/ Sknp
    \/ Lddt \/ Waitkey \/ Setdt \/ Setst \/ Addidx \/ Ldfont
    \/ Bcd \/ Regdmp \/ Regld \/ Invalid

Spec == Init /\ [][Next]_vars

TypeOK ==
    /\ pc \in 0 .. WORD - 1
    /\ sp \in 0 .. WORD - 1
    /\ I \in 0 .. WORD - 1
    /\ delay \in 0 .. BYTE - 1
    /\ sound \in 0 .. BYTE - 1
    /\ \A r \in 0 .. NREGS - 1 : v[r] \in 0 .. BYTE - 1
    /\ loc \in {"while", "for", "exit"}

(***************************************************************************)
(* Properties.                                                             *)
(***************************************************************************)
\* a step of the poll at the top of the loop
PollStep == loc = "while" /\ loc' = "for"

\* a step of the end of the batch
EndTickStep == loc = "for" /\ loc' = "while"

KeyIndices == 0 .. 15

\* C1: every 8xy4 with x # 0xF leaves Vx = (Vx_old + Vy_old) mod 256 and
\* VF = 1 exactly when Vx_old + Vy_old > 255 (VF = 0 otherwise).
C1_AddCarry ==
    [][Exec("add") /\ X(Inst) # 15 =>
          /\ v'[X(Inst)] = (Vx + Vy) % 256
          /\ v'[15] = B2I(Vx + Vy > 255)]_vars

\* C2: every 8xy5 with x # 0xF leaves Vx = (Vx_old - Vy_old) mod 256 and
\* VF = 1 exactly when Vx_old > Vy_old, compared before the subtraction.
C2_SubBorrow ==
    [][Exec("sub") /\ X(Inst) # 15 =>
          /\ v'[X(Inst)] = (Vx - Vy) % 256
          /\ v'[15] = B2I(Vx > Vy)]_vars

\* C3: while a wait for a key is pending, a poll that returns no key index
\* in 0..15 leaves PC and every V register unchanged and the wait pending;
\* a poll that returns a key index k in 0..15 sets the waiting register to k,
\* clears the wait and moves PC past the wait instruction; at every tick
\* boundary of a pending wait PC is at the wait instruction.
C3_WaitForKey ==
    [][/\ PollStep /\ keyreg < NREGS =>
            /\ Decode(Inst) = "waitkey" /\ X(Inst) = keyreg
            /\ IF pressed' \in KeyIndices
               THEN /\ v' = [v EXCEPT ![keyreg] = pressed']
                    /\ keyreg' = NOREG
                    /\ pc' = u16(pc + 2)
               ELSE /\ v' = v
                    /\ pc' = pc
                    /\ keyreg' = keyreg
       /\ PollStep /\ v' # v => \E r \in 0 .. NREGS - 1 :
                                    /\ v'[r] \in KeyIndices
                                    /\ v' = [v EXCEPT ![r] = v'[r]]]_vars

Dead(m) == loc = "exit" /\ status = EXIT_FAILURE /\ msg = m

\* C4 as stated: sp is always in 0..5; a return with sp = 0 and a call with
\* sp = 5 end the run in the fatal underflow / overflow state, the failing
\* instruction modifies neither the stack nor sp nor PC, and no instruction
\* executes afterwards.
C4_StackFatalOrig ==
    /\ [](sp \in 0 .. STACK_SIZE)
    /\ [][/\ Exec("rts") /\ sp = 0 =>
               Dead("stack underflow\n")' /\ UNCHANGED <<stack, sp, pc>>
          /\ Exec("call") /\ sp = STACK_SIZE =>
               Dead("stack overflow\n")' /\ UNCHANGED <<stack, sp, pc>>
          /\ loc # "exit"]_vars

\* C4 amended: sp is always in 0..5; a return with sp = 0 and a call with
\* sp = 5 end the run in the fatal underflow / overflow state, the failing
\* instruction modifies neither the stack nor sp and leaves PC advanced by
\* its fetch (2 past the instruction), and no instruction executes afterwards.
C4_StackFatal ==
    /\ [](sp \in 0 .. STACK_SIZE)
    /\ [][/\ Exec("rts") /\ sp = 0 =>
               /\ Dead("stack underflow\n")'
               /\ UNCHANGED <<stack, sp>>
               /\ pc' = u16(pc + 2)
          /\ Exec("call") /\ sp = STACK_SIZE =>
               /\ Dead("stack overflow\n")'
               /\ UNCHANGED <<stack, sp>>
               /\ pc' = u16(pc + 2)
          /\ loc # "exit"]_vars

\* a call failed on the full stack
C4_Witness == Dead("stack overflow\n") /\ sp = STACK_SIZE /\ Decode(last.inst) = "call"

\* C5: every operation uses memory indices in 0..4095, display rows in 0..31
\* and columns in 0..63, stack indices in 0..4 and register indices in 0..15;
\* the fetch, the BCD store, the register dump and the register load use the
\* addresses (base + offset) mod 4096.
C5_InBounds ==
    [][/\ acc'.mem \subseteq 0 .. MEMORY_SIZE - 1
       /\ \A c \in acc'.disp : c[1] \in 0 .. ROWS - 1 /\ c[2] \in 0 .. COLS - 1
       /\ acc'.stack \subseteq 0 .. STACK_SIZE - 1
       /\ acc'.reg \subseteq 0 .. NREGS - 1
       /\ DOMAIN mem' \subseteq 0 .. MEMORY_SIZE - 1
       /\ \A c \in display' : c[1] \in 0 .. ROWS - 1 /\ c[2] \in 0 .. COLS - 1
       /\ loc = "for" /\ ins < inspertick =>
            /\ Inst = Rd(mem, pc % MEMORY_SIZE) * 256
                      + Rd(mem, (pc + 1) % MEMORY_SIZE)
            /\ {pc % MEMORY_SIZE, (pc + 1) % MEMORY_SIZE} \subseteq acc'.mem
       /\ Exec("bcd") =>
            \A a \in 0 .. MEMORY_SIZE - 1 :
                Rd(mem', a) =
                    IF a = (I + 0) % MEMORY_SIZE THEN Vx \div 100
                    ELSE IF a = (I + 1) % MEMORY_SIZE THEN (Vx \div 10) % 10
                    ELSE IF a = (I + 2) % MEMORY_SIZE THEN Vx % 10
                    ELSE Rd(mem, a)
       /\ Exec("regdmp") =>
            \A a \in 0 .. MEMORY_SIZE - 1 :
                Rd(mem', a) =
                    IF \E k \in 0 .. X(Inst) : a = (I + k) % MEMORY_SIZE
                    THEN v[CHOOSE k \in 0 .. X(Inst) : a = (I + k) % MEMORY_SIZE]
                    ELSE Rd(mem, a)
       /\ Exec("regld") =>
            \A k \in 0 .. X(Inst) : v'[k] = Rd(mem, (I + k) % MEMORY_SIZE)]_vars

\* a BCD store that wrapped from the last byte of memory to the first
C5_Witness ==
    /\ Decode(last.inst) = "bcd"
    /\ last.I = MEMORY_SIZE - 1
    /\ {MEMORY_SIZE - 1, 0, 1} \subseteq acc.mem
    /\ Rd(mem, MEMORY_SIZE - 1) = 2 /\ Rd(mem, 0) = 5 /\ Rd(mem, 1) = 5

\* the last two instructions were the same draw, with x and y other than 0xF
TwoDraws ==
    /\ Decode(last.inst) = "draw"
    /\ last.pinst = last.inst
    /\ X(last.inst) # 15
    /\ Y(last.inst) # 15

\* C6: the same draw executed twice in a row (x, y # 0xF) leaves every
\* display cell as it was before the first draw, and VF after each of the
\* two draws is 1 exactly when that draw turned a pixel off.
C6_DoubleDraw ==
    TwoDraws =>
        /\ display = last.pdisplay
        /\ last.v[15] = B2I(last.pdisplay \ last.display # {})
        /\ v[15] = B2I(last.display \ display # {})

\* two draws over earlier content, each with a collision
C6_Witness ==
    /\ TwoDraws
    /\ last.pdisplay # {}
    /\ last.display # last.pdisplay
    /\ last.pdisplay \ last.display # {}
    /\ last.display \ last.pdisplay # {}
    /\ display = last.pdisplay
    /\ v[15] = 1

SymDiff(s, t) == (s \ t) \cup (t \ s)

\* the corner of a draw
PX == Vx % COLS

PY == Vy % ROWS

\* the cells of a draw, the sprite rows taken at (I + r) mod 4096
CellsWrap ==
    {c \in {<<PY + r, PX + k>> : r \in 0 .. D(Inst) - 1, k \in 0 .. 7} :
        /\ c[1] < ROWS /\ c[2] < COLS
        /\ Bit(Rd(mem, (I + (c[1] - PY)) % MEMORY_SIZE), 7 - (c[2] - PX)) = 1}

\* the cells of a draw, the sprite rows taken at I + r where I + r < 4096
CellsInMem ==
    {c \in {<<PY + r, PX + k>> : r \in 0 .. D(Inst) - 1, k \in 0 .. 7} :
        /\ c[1] < ROWS /\ c[2] < COLS
        /\ I + (c[1] - PY) < MEMORY_SIZE
        /\ Bit(Rd(mem, I + (c[1] - PY)), 7 - (c[2] - PX)) = 1}

SkipOps == {"se", "sne", "sexy", "snexy"}

SkipHolds ==
    CASE Decode(Inst) = "se" -> Vx = LH(Inst)
      [] Decode(Inst) = "sne" -> Vx # LH(Inst)
      [] Decode(Inst) = "sexy" -> Vx = Vy
      [] Decode(Inst) = "snexy" -> Vx # Vy
      [] OTHER -> FALSE

\* C8: 3xnn, 4xnn, 5xy0 and 9xy0 executed at PC = p leave PC = p + 4 when
\* their condition holds and p + 2 when it does not (mod 65536), and change
\* no register, timer, memory cell, stack entry or display cell.
C8_Skip ==
    [][loc = "for" /\ ins < inspertick /\ Decode(Inst) \in SkipOps =>
          /\ pc' = u16(pc + (IF SkipHolds THEN 4 ELSE 2))
          /\ UNCHANGED <<v, I, delay, sound, mem, stack, sp, display>>]_vars

\* a skip was taken
C8_Witness ==
    /\ Decode(last.inst) \in SkipOps
    /\ pc = last.pc + 4
    /\ last.v[X(last.inst)] = 255

\* C9: the end of a tick leaves each timer at old - 1 when old > 0 and at 0
\* when old = 0; no other step than Fx15 changes the delay timer, no other
\* step than Fx18 the sound timer; the timers stay in 0..255.
C9_Timers ==
    /\ [](delay \in 0 .. 255 /\ sound \in 0 .. 255)
    /\ [][/\ EndTickStep =>
               /\ delay' = IF delay > 0 THEN delay - 1 ELSE 0
               /\ sound' = IF sound > 0 THEN sound - 1 ELSE 0
          /\ ~ EndTickStep /\ ~ Exec("setdt") => delay' = delay
          /\ ~ EndTickStep /\ ~ Exec("setst") => sound' = sound]_vars

\* both timers ran out during a wait for a key: the delay timer set to 3,
\* the sound timer set to 1 and held at 0 while the delay timer ran on
C9_Witness ==
    /\ loc = "while"
    /\ keyreg = 1
    /\ v[0] = 1
    /\ delay = 0
    /\ sound = 0

FatalMsgs == {"stack overflow\n", "stack underflow\n", "invalid instruction\n"}

\* C10 as stated: after a poll returned the quit request there is no further
\* poll and the run ends with success status, never with a fatal error; and
\* the run ends with success status only after such a poll.
C10_QuitOrig ==
    /\ [](pressed = QUIT => status # EXIT_FAILURE)
    /\ [](status = EXIT_SUCCESS => pressed = QUIT)
    /\ [][pressed = QUIT => ~ PollStep]_vars

\* C10 amended: after a poll returned the quit request there is no further
\* poll; the batch of that tick still executes, each step taking it nearer to
\* its end, and the run then ends with success status unless an instruction
\* of that batch is fatal; the run ends with success status only after such a
\* poll, and every other end of the run is a fatal error.
C10_Quit ==
    /\ [](status = EXIT_SUCCESS => pressed = QUIT /\ loc = "exit")
    /\ [](loc = "exit" =>
            status = EXIT_SUCCESS \/ (status = EXIT_FAILURE /\ msg \in FatalMsgs))
    /\ [](pressed = QUIT /\ loc # "exit" => ins <= inspertick)
    /\ [][/\ pressed = QUIT => ~ PollStep
          /\ pressed = QUIT /\ loc = "for" =>
                \/ loc' = "for" /\ ins' = ins + 1
                \/ loc' = "while" /\ ins' = ins
                \/ loc' = "exit" /\ status' = EXIT_FAILURE
          /\ pressed = QUIT /\ loc = "while" =>
                loc' = "exit" /\ status' = EXIT_SUCCESS]_vars

\* the run ended with success after the batch that followed the quit request
C10_Witness ==
    /\ loc = "exit"
    /\ status = EXIT_SUCCESS
    /\ pressed = QUIT
    /\ last.inst # 0 - 1

\* the four hexadecimal digits of an instruction word, the first the highest
Nibbles(w) == <<(w \div 4096) % 16, (w \div 256) % 16, (w \div 16) % 16, w % 16>>

\* a digit of an encoding that stands for any value (x, y, n)
ANY == 0 - 1

\* the recognized encodings, each with the operation it selects
Encodings ==
    {<<"cls", <<0, 0, 14, 0>>>>, <<"rts", <<0, 0, 14, 14>>>>,
     <<"jp", <<1, ANY, ANY, ANY>>>>, <<"call", <<2, ANY, ANY, ANY>>>>,
     <<"se", <<3, ANY, ANY, ANY>>>>, <<"sne", <<4, ANY, ANY, ANY>>>>,
     <<"sexy", <<5, ANY, ANY, 0>>>>, <<"ld", <<6, ANY, ANY, ANY>>>>,
     <<"addi", <<7, ANY, ANY, ANY>>>>,
     <<"mov", <<8, ANY, ANY, 0>>>>, <<"or", <<8, ANY, ANY, 1>>>>,
     <<"and", <<8, ANY, ANY, 2>>>>, <<"xor", <<8, ANY, ANY, 3>>>>,
     <<"add", <<8, ANY, ANY, 4>>>>, <<"sub", <<8, ANY, ANY, 5>>>>,
     <<"shr", <<8, ANY, ANY, 6>>>>, <<"subn", <<8, ANY, ANY, 7>>>>,
     <<"shl", <<8, ANY, ANY, 14>>>>,
     <<"snexy", <<9, ANY, ANY, 0>>>>, <<"ldi", <<10, ANY, ANY, ANY>>>>,
     <<"jpv0", <<11, ANY, ANY, ANY>>>>, <<"rnd", <<12, ANY, ANY, ANY>>>>,
     <<"draw", <<13, ANY, ANY, ANY>>>>,
     <<"skp", <<14, ANY, 9, 14>>>>, <<"sknp", <<14, ANY, 10, 1>>>>,
     <<"lddt", <<15, ANY, 0, 7>>>>, <<"waitkey", <<15, ANY, 0, 10>>>>,
     <<"setdt", <<15, ANY, 1, 5>>>>, <<"setst", <<15, ANY, 1, 8>>>>,
     <<"addidx", <<15, ANY, 1, 14>>>>, <<"ldfont", <<15, ANY, 2, 9>>>>,
     <<"bcd", <<15, ANY, 3, 3>>>>, <<"regdmp", <<15, ANY, 5, 5>>>>,
     <<"regld", <<15, ANY, 6, 5>>>>}

\* the operations whose encoding the word w has
Selected(w) ==
    LET n == Nibbles(w)
    IN  {e[1] : e \in {f \in Encodings :
                          \A k \in 1 .. 4 : f[2][k] = ANY \/ f[2][k] = n[k]}}

\* words outside every encoding: 0x0000, 5xy1, 8xy8, 9xy1, Ex00, Fx00
FatalWords ==
    {\h0000}
    \cup {W(a, x, y, d) : <<a, d>> \in {<<5, 1>>, <<8, 8>>, <<9, 1>>},
                          x \in 0 .. 15, y \in 0 .. 15}
    \cup {W(a, x, 0, 0) : a \in {14, 15}, x \in 0 .. 15}

\* over all 65536 words: a word has at most one encoding, the chain selects
\* the operation of that encoding, and "invalid" when it has none
DecodeTotal ==
    /\ \A w \in 0 .. WORD - 1 :
          LET ops == Selected(w)
              op == Decode(w)
          IN  /\ Cardinality(ops) <= 1
              /\ ops = IF op = "invalid" THEN {} ELSE {op}
    /\ \A w \in FatalWords : Decode(w) = "invalid"

\* the steps of a fetched instruction word
Fetching == loc = "for" /\ ins < inspertick

\* C11: decoding is total and unambiguous over all 65536 words: a word
\* selects exactly one recognized operation, which then executes, or it ends
\* the run in the fatal "invalid instruction" state (0x0000, 5xy1, 8xy8, 9xy1,
\* Ex00, Fx00 among them), the failing word changing nothing but the PC of its
\* fetch; after a fatal state no instruction executes and no state changes.
C11_Decode ==
    /\ []DecodeTotal
    /\ [][/\ Fetching /\ Selected(Inst) = {} =>
               /\ Dead("invalid instruction\n")'
               /\ UNCHANGED <<mem, stack, sp, I, delay, sound, v, dirty,
                              display, keyreg, pressed, ins>>
          /\ Fetching /\ Selected(Inst) # {} =>
               /\ ~ Dead("invalid instruction\n")'
               /\ Selected(last'.inst) = {Decode(Inst)}
               /\ loc' = "for" => ins' = ins + 1
          /\ loc # "exit"]_vars

\* the run ended on the word 5011, which has no encoding
C11_Witness ==
    /\ Dead("invalid instruction\n")
    /\ last.inst = \h5011
    /\ pc = DEFAULT_PC + 2

\* the memory image of the program 00E0 followed by a jump to itself
ClsLoop ==
    mem = loadrom(RomBytes(<<\h00E0, \h1202>>), loadfonts(ZeroMem, 0),
                  DEFAULT_PC)

\* C12: the dirty flag is true at the end of a batch exactly when the batch
\* executed a clear-screen or toggled a pixel; refresh is requested in
\* exactly those ticks, and the flag is false at the start of every tick.
\* For the program 00E0 followed by a jump to itself the display is all off
\* in every state and the end of a tick finds the flag set in the first tick
\* and in no other.
C12_Dirty ==
    /\ [](loc = "while" => ~ dirty)
    /\ [][/\ EndTickStep =>
               /\ dirty = tick.painted
               /\ tick'.refresh = tick.painted
               /\ dirty' = FALSE
          /\ PollStep => ~ dirty'
          /\ ~ EndTickStep /\ ~ tick.refresh => ~ tick'.refresh
          /\ ClsLoop /\ EndTickStep => dirty = tick.first]_vars
    /\ [](ClsLoop => display = Blank)

\* a later tick of the program 00E0 / jump ended without a refresh
C12_Witness ==
    /\ ClsLoop
    /\ loc = "while"
    /\ last.inst = \h1202
    /\ ~ tick.first
    /\ ~ tick.refresh
    /\ display = Blank

\* C13: every Fx1E with x # 0xF leaves VF = 1 exactly when I_old + Vx > 0xFFF,
\* I_old being the index register before the addition, and VF = 0 otherwise.
C13_IndexFlag ==
    [][Exec("addidx") /\ X(Inst) # 15 =>
          v'[15] = B2I(I + Vx > \hFFF)]_vars

\* C14: for every x in 0..15, x = 0xF included: after 8xy6 VF is bit 0 of
\* the value Vx held before the shift, after 8xyE VF is bit 7 of it; for
\* x # 0xF the register ends at floor(old / 2) and (old * 2) mod 256.
C14_Shift ==
    [][/\ Exec("shr") =>
            /\ v'[15] = Vx % 2
            /\ X(Inst) # 15 => v'[X(Inst)] = Vx \div 2
       /\ Exec("shl") =>
            /\ v'[15] = (Vx \div 128) % 2
            /\ X(Inst) # 15 => v'[X(Inst)] = (Vx * 2) % 256]_vars

\* C15: for every raw value of the poll the adapter returns a key index in
\* 0..15, the "no key" sentinel or the "quit" sentinel; index i only when the
\* raw character, compared without regard to case, is the i-th character of
\* the keymap, "quit" exactly for escape, "no key" in every other case.
C15_Adapter ==
    [][PollStep =>
          /\ pressed' \in KeyIndices \cup {NOKEY, QUIT}
          /\ pressed' \in KeyIndices =>
                /\ tick'.raw # ERR
                /\ tolower(tick'.raw) = tolower(keymap[pressed' + 1])
          /\ pressed' = QUIT <=> tick'.raw = ESC
          /\ pressed' = NOKEY <=>
                /\ tick'.raw # ESC
                /\ \A i \in KeyIndices :
                      tick'.raw = ERR
                      \/ tolower(tick'.raw) # tolower(keymap[i + 1])]_vars

\* a timespec in nanoseconds
Nanos(t) == t.tv_sec * NANOS_PER_SECOND + t.tv_nsec

\* the time between two readings of the clock, in nanoseconds
Elapsed(start, end) ==
    (end.tv_sec - start.tv_sec) * NANOS_PER_SECOND
    + (end.tv_nsec - start.tv_nsec)

\* C16: at the end of each tick the sleep requested is max(0, period -
\* elapsed), the period being one 60th of a second in nanoseconds and elapsed
\* the monotonic-clock time of the batch in nanoseconds; no sleep is
\* requested when the batch took a full period or more.
C16_Sleep ==
    [][EndTickStep =>
          LET elapsed == Elapsed(tick'.start, tick'.end)
          IN  Nanos(tick'.rqtp) =
                  IF NANOS_PER_TICK - elapsed > 0
                  THEN NANOS_PER_TICK - elapsed
                  ELSE 0]_vars

\* the poll of the current tick returned a key index in 0..15 equal to Vx
KeyIsVx == pressed \in KeyIndices /\ pressed = Vx

\* C17: Ex9E skips the next instruction (PC advances by 4) exactly when the
\* poll of the current tick returned a key index in 0..15 equal to Vx, ExA1
\* exactly when it did not; after a poll that returned "no key" or "quit"
\* Ex9E never skips and ExA1 always skips, whatever Vx holds.
C17_KeySkip ==
    [][/\ Exec("skp") => pc' = u16(pc + (IF KeyIsVx THEN 4 ELSE 2))
       /\ Exec("sknp") => pc' = u16(pc + (IF KeyIsVx THEN 2 ELSE 4))]_vars

\* the cells of sprite row r of a draw when the row is the byte b
RowCells(r, b) ==
    {<<PY + r, PX + k>> : k \in {j \in 0 .. 7 : PX + j < COLS /\ Bit(b, 7 - j) = 1}}

\* the cells of the display row of sprite row r that a step changed
Toggled(r) == {c \in SymDiff(display, display') : c[1] = PY + r}

\* the sprite rows of a draw that lie inside the grid
GridRows == {r \in 0 .. D(Inst) - 1 : PY + r < ROWS}

DumpAddrs == {(I + k) % MEMORY_SIZE : k \in 0 .. X(Inst)}

\* the instruction executed last was Fx55 and the next one is Fx65 with the
\* same x and the same I
AfterDump ==
    /\ Exec("regld")
    /\ Decode(last.inst) = "regdmp"
    /\ X(last.inst) = X(Inst)
    /\ last.I = I

\* C19: Fx55 writes V0..Vx to the addresses (I + k) mod 4096, k = 0..x, and
\* changes no other memory cell, no register and not I; Fx65 reads the same
\* addresses into V0..Vx and changes no register above Vx, no memory cell and
\* not I; Fx55 followed by Fx65 with the same x and I leaves every register
\* as it was before the Fx55.
C19_DumpLoad ==
    [][/\ Exec("regdmp") =>
            /\ \A k \in 0 .. X(Inst) : Rd(mem', (I + k) % MEMORY_SIZE) = v[k]
            /\ \A a \in (DOMAIN mem \cup DOMAIN mem') \ DumpAddrs :
                  Rd(mem', a) = Rd(mem, a)
            /\ DOMAIN mem' \subseteq 0 .. MEMORY_SIZE - 1
            /\ UNCHANGED <<v, I>>
       /\ Exec("regld") =>
            /\ \A k \in 0 .. NREGS - 1 :
                  v'[k] = IF k <= X(Inst)
                          THEN Rd(mem, (I + k) % MEMORY_SIZE)
                          ELSE v[k]
            /\ UNCHANGED <<mem, I>>
       /\ AfterDump => v' = last.v]_vars

\* F255 then F265 at I = 0xFFF: V1 = 255 went to address 0 and came back
C19_Witness ==
    /\ last.pinst = \hF255
    /\ last.inst = \hF265
    /\ last.I = MEMORY_SIZE - 1
    /\ I = MEMORY_SIZE - 1
    /\ Rd(mem, 0) = 255
    /\ v = last.v
    /\ v[1] = 255

\* every live stack slot holds the address that follows a call instruction
ReturnsAfterCalls ==
    \A k \in 0 .. sp - 1 :
        Decode(fetch(mem, u16(stack[k] - 2)).inst) = "call"

\* C20: a 2nnn executed at p with sp = s < 5 sets PC = nnn, stores p + 2 in
\* stack slot s and sets sp = s + 1, touching no other slot; a 00EE executed
\* with sp = s + 1 sets PC to the content of slot s and sp = s; no other step
\* changes sp or a stack slot, so every live slot keeps the address after its
\* own call until the matching return takes it.
C20_Lifo ==
    /\ [](sp \in 0 .. STACK_SIZE /\ ReturnsAfterCalls)
    /\ [][/\ Exec("call") /\ sp < STACK_SIZE =>
               /\ pc' = VAL(Inst)
               /\ stack' = [stack EXCEPT ![sp] = u16(pc + 2)]
               /\ sp' = sp + 1
          /\ Exec("rts") /\ sp > 0 =>
               /\ pc' = stack[sp - 1]
               /\ sp' = sp - 1
               /\ stack' = stack
               /\ Decode(fetch(mem, u16(pc' - 2)).inst) = "call"
          /\ ~ Exec("call") /\ ~ Exec("rts") => UNCHANGED <<sp, stack>>]_vars

\* five nested calls have all returned, the outermost to the instruction
\* after the first call
C20_Witness ==
    /\ Decode(last.inst) = "rts"
    /\ status = RUNNING
    /\ sp = 0
    /\ pc = DEFAULT_PC + 2
    /\ \A k \in 0 .. STACK_SIZE - 1 : stack[k] # 0

====
